---------------------------- MODULE Spec2Model ----------------------------
(***************************************************************************)
(* Model of my_screen_capture_kit.py: one session of main(), from the mode *)
(* prompt through the build-cache check (ensure_executable), the compiler  *)
(* run, the launch of the capture binary and the wait on it, with the      *)
(* interrupt (KeyboardInterrupt) paths of every blocking call.             *)
(*                                                                         *)
(* Strings the user types are sequences of one-character strings, so that  *)
(* str.strip() and float() are computed and not assumed.                   *)
(***************************************************************************)
EXTENDS Integers, Sequences, FiniteSets, TLC

(* ------------------------------ bounds --------------------------------- *)

\* Modification times and the wall clock range over 0..MaxTime.
MaxTime == 2

\* How many times ensure_output_folder is called on its own before a session.
MaxFolderCalls == 2

(* ------------------------- program constants --------------------------- *)

SWIFT_COMPILER == "swiftc"
RECORDER_EXECUTABLE == "recorder"
SWIFT_SOURCE_FILE == "core.swift"
OUTPUT_FOLDER == "output"

\* The literal 'continuous' returned by get_duration_input.
CONTINUOUS == <<"c", "o", "n", "t", "i", "n", "u", "o", "u", "s">>

\* The literal '86400' passed for a continuous recording (24 hours max).
SENTINEL == <<"8", "6", "4", "0", "0">>

\* f'./{RECORDER_EXECUTABLE}'
LaunchPath == <<"./", RECORDER_EXECUTABLE>>

(* ------------------------------ inputs --------------------------------- *)

\* What the user may type at the mode prompt.
Choices == {"1", "2", "3", "4", ""}

\* What the user may type at the duration prompt.
DurationInputs ==
    { <<>>, <<" ">>, <<"4", "5">>, <<" ", "4", "5", " ">>, <<"0">>,
      <<"-", "1">>, <<"a", "b">>, <<"1", ".", "5">>, <<"n", "a", "n">> }

\* Exit statuses of the compiler and of the capture binary.
ExitStatuses == {0, 1}

\* What the compiler may have written to its standard error.
StderrTexts == {"", "error: a", "error: b"}

Times == 0..MaxTime

(* ------------------------- str.strip and float ------------------------- *)

Whitespace == {" ", "\t", "\n"}

Digits == {"0", "1", "2", "3", "4", "5", "6", "7", "8", "9"}

RECURSIVE LStrip(_)
LStrip(s) ==
    IF s # <<>> /\ Head(s) \in Whitespace THEN LStrip(Tail(s)) ELSE s

RECURSIVE RStrip(_)
RStrip(s) ==
    IF s # <<>> /\ s[Len(s)] \in Whitespace
    THEN RStrip(SubSeq(s, 1, Len(s) - 1))
    ELSE s

\* str.strip()
Strip(s) == RStrip(LStrip(s))

AllZero(s) == \A i \in 1..Len(s) : s[i] \in {"0", "."}

\* An unsigned decimal literal: digits with at most one point and at least
\* one digit.
IsDecimal(s) ==
    /\ \E i \in 1..Len(s) : s[i] \in Digits
    /\ \A i \in 1..Len(s) : s[i] \in Digits \cup {"."}
    /\ Cardinality({i \in 1..Len(s) : s[i] = "."}) <= 1

\* The unsigned part of a float literal: "nan", "inf", "zero", "pos", or
\* "error" where float() raises ValueError.
Magnitude(s) ==
    IF s = <<"n", "a", "n">> THEN "nan"
    ELSE IF s = <<"i", "n", "f">> THEN "inf"
    ELSE IF ~IsDecimal(s) THEN "error"
    ELSE IF AllZero(s) THEN "zero"
    ELSE "pos"

\* float(s), as far as the comparison with 0 needs it: "error" (ValueError),
\* "nan", "neg", "zero" or "pos".
Float(s) ==
    LET t == Strip(s)
        signed == t # <<>> /\ Head(t) \in {"+", "-"}
        negative == signed /\ Head(t) = "-"
        m == Magnitude(IF signed THEN Tail(t) ELSE t)
    IN  IF m \in {"error", "nan", "zero"} THEN m
        ELSE IF negative THEN "neg"
        ELSE "pos"

\* duration <= 0 on the parsed float (false for NaN).
NotPositive(f) == f \in {"neg", "zero"}

(* ------------------------------- state --------------------------------- *)

VARIABLES
    pc,            \* where main() is
    choice,        \* the mode prompt's answer
    duration,      \* what get_duration_input returned
    output_file,   \* what generate_output_filename returned
    srcExists,     \* core.swift exists
    srcTime,       \* its modification time
    binExists,     \* recorder exists
    binTime,       \* its modification time
    dirExists,     \* the output folder exists
    compilerFound, \* swiftc can be spawned
    now,           \* the wall clock
    ensure,        \* ensure_executable: what it saw and what it returned
    compilerCalls, \* argument vectors the compiler was invoked with
    compilerExit,  \* the compiler's exit: status and stderr, or NoExit
    launches,      \* argument vectors the capture binary was launched with
    child,         \* the capture child: state, exit status, how it ended
    printed,       \* the messages printed so far
    dirAtStart,    \* whether the output folder existed when the session began
    other,         \* a second instance of the program on the same paths
    locale,        \* the language locale.getlocale() reports, or NoValue
    lookup,        \* the last get_message call made on its own
    folderCalls    \* how many times ensure_output_folder was called

vars == <<pc, choice, duration, output_file, srcExists, srcTime, binExists,
          binTime, dirExists, compilerFound, now, ensure, compilerCalls,
          compilerExit, launches, child, printed, dirAtStart, other,
          locale, lookup, folderCalls>>

\* What the session's own steps leave alone.
auxVars == <<dirAtStart, other, locale, lookup, folderCalls>>

NoValue == "none"

NoExit == [status |-> -1, stderr |-> ""]

NoEnsure ==
    [binExists |-> FALSE, binTime |-> 0, srcExists |-> FALSE, srcTime |-> 0,
     mtime |-> "not_read", ret |-> "not_called", at |-> -1]

NoChild == [state |-> "none", status |-> -1, interrupted |-> FALSE,
            killSent |-> FALSE, capture |-> FALSE]

Msg(key, arg) == [key |-> key, arg |-> arg]

\* print(get_message(key, ...)) appended to what was printed before.
Say(out, key, arg) == Append(out, Msg(key, arg))

Keys(out) == {out[i].key : i \in 1..Len(out)}

NoFile == [dir |-> "", stamp |-> -1]

\* No second instance is running.
NoOther == [pc |-> "absent", mtime |-> "not_read", called |-> FALSE]

NoLookup == [key |-> NoValue, text |-> NoValue]

\* The locale of the sessions of Spec.
SessionLocale == <<"e", "n", "_", "U", "S">>

InitSession ==
    /\ pc = "mode_prompt"
    /\ choice = NoValue
    /\ duration = <<>>
    /\ output_file = NoFile
    /\ srcExists \in BOOLEAN
    /\ srcTime \in (IF srcExists THEN Times ELSE {0})
    /\ binExists \in BOOLEAN
    /\ binTime \in (IF binExists THEN Times ELSE {0})
    /\ dirExists \in BOOLEAN
    /\ compilerFound \in BOOLEAN
    /\ now \in Times
    /\ ensure = NoEnsure
    /\ compilerCalls = <<>>
    /\ compilerExit = NoExit
    /\ launches = <<>>
    /\ child = NoChild
    /\ printed = <<>>
    /\ dirAtStart = dirExists
    /\ lookup = NoLookup
    /\ folderCalls = 0

Init ==
    /\ InitSession
    /\ other = NoOther
    /\ locale = SessionLocale

fsVars == <<srcExists, srcTime, binExists, binTime, dirExists, compilerFound>>

procVars == <<ensure, compilerCalls, compilerExit, launches, child>>

\* The filesystem apart from the executable's existence.
fsRest == <<srcExists, srcTime, binTime, dirExists, compilerFound>>

\* Faulty variant: the cleanup removes the executable.
CleanupRemovesExecutable(exists) == FALSE

\* cleanup_files, run by main's finally: whether the executable exists after
\* it. Its body is a bare pass, so the executable is kept.
CleanupFiles(exists) == exists

\* Faulty variant: a failed build is tried again.
RetryAfterBuildError == "ensure"

\* Where main goes when ensure_executable returned False: it returns.
AfterBuildError == "done"

(* ------------------------------ prompts -------------------------------- *)

\* Faulty variant: the outer handler acknowledges with the recording's message.
UserInterruptedAsStopped(out) ==
    Say(Say(out, "recording_stopped", ""), "goodbye", "")

\* main's outer handler: except KeyboardInterrupt.
UserInterrupted(out) ==
    Say(Say(out, "user_interrupted", ""), "goodbye", "")

\* Faulty variant: every non-empty answer selects a mode.
ChoiceNotEmpty(c) == c # ""

\* main's test of the answer: choice in ["1", "2", "3"].
ValidChoice(c) == c \in {"1", "2", "3"}

\* main up to and including choice = handle_user_input() and the test of
\* the choice.
HandleUserInput ==
    /\ pc = "mode_prompt"
    /\ \E c \in Choices :
          /\ choice' = c
          /\ pc' = IF ValidChoice(c) THEN "duration_prompt" ELSE "done"
    /\ printed' = Say(printed, "macos_audio_recording", "")
    /\ UNCHANGED auxVars
    /\ UNCHANGED <<duration, output_file, now, fsVars, procVars>>

\* KeyboardInterrupt inside input() of handle_user_input.
InterruptModePrompt ==
    /\ pc = "mode_prompt"
    /\ pc' = "done"
    /\ printed' = UserInterrupted(Say(printed, "macos_audio_recording", ""))
    /\ UNCHANGED auxVars
    /\ UNCHANGED <<choice, duration, output_file, now, fsVars, procVars>>

\* The value get_duration_input returns for the typed text s.
DurationResult(s) ==
    LET duration_input == Strip(s)
    IN  IF duration_input = <<>> THEN CONTINUOUS
        ELSE IF Float(duration_input) = "error" THEN CONTINUOUS
        ELSE IF NotPositive(Float(duration_input)) THEN CONTINUOUS
        ELSE duration_input

\* What get_duration_input prints for the typed text s.
DurationNotice(out, s) ==
    LET duration_input == Strip(s)
    IN  IF duration_input = <<>> THEN out
        ELSE IF Float(duration_input) = "error"
             THEN Say(out, "invalid_duration", "")
        ELSE IF NotPositive(Float(duration_input))
             THEN Say(out, "duration_positive", "")
        ELSE out

GetDurationInput ==
    /\ pc = "duration_prompt"
    /\ \E s \in DurationInputs :
          /\ duration' = DurationResult(s)
          /\ printed' = DurationNotice(printed, s)
    /\ pc' = "gen_output"
    /\ UNCHANGED auxVars
    /\ UNCHANGED <<choice, output_file, now, fsVars, procVars>>

\* KeyboardInterrupt inside input() of get_duration_input: re-raised, through
\* main's finally, to main's outer handler.
InterruptDurationPrompt ==
    /\ pc = "duration_prompt"
    /\ pc' = "done"
    /\ printed' = UserInterrupted(printed)
    /\ UNCHANGED auxVars
    /\ binExists' = CleanupFiles(binExists)
    /\ UNCHANGED <<choice, duration, output_file, now, fsRest, procVars>>

(* ---------------------------- output path ------------------------------ *)

\* os.makedirs(OUTPUT_FOLDER): it raises FileExistsError on a folder that
\* exists.
Makedirs(exists) == IF exists THEN "FileExistsError" ELSE "created"

\* Faulty variant: the folder is made without the test for its existence.
EnsureOutputFolderUnguarded(exists) == Makedirs(exists)

\* ensure_output_folder: the folder is made only when it does not exist.
EnsureOutputFolderResult(exists) ==
    IF ~exists THEN Makedirs(exists) ELSE "kept"

\* What ensure_output_folder prints; an exception it lets through ends in
\* the interpreter's traceback.
FolderOutput(out, r) ==
    CASE r = "created" -> Say(out, "output_folder_created", OUTPUT_FOLDER)
      [] r = "FileExistsError" -> Say(out, "Traceback", "FileExistsError")
      [] OTHER -> out

\* A call of ensure_output_folder on its own, as the tests make it before
\* any session.
EnsureOutputFolder ==
    /\ pc = "mode_prompt"
    /\ folderCalls < MaxFolderCalls
    /\ folderCalls' = folderCalls + 1
    /\ LET r == EnsureOutputFolderResult(dirExists)
       IN  /\ dirExists' = (dirExists \/ r = "created")
           /\ printed' = FolderOutput(printed, r)
    /\ UNCHANGED <<pc, choice, duration, output_file, now, srcExists, srcTime,
                   binExists, binTime, compilerFound, procVars, dirAtStart,
                   other, locale, lookup>>

\* generate_output_filename, with the ensure_output_folder it calls; main
\* has no handler for an exception of os.makedirs.
GenerateOutputFilename ==
    /\ pc = "gen_output"
    /\ folderCalls' = folderCalls + 1
    /\ LET r == EnsureOutputFolderResult(dirExists)
       IN  /\ dirExists' = (dirExists \/ r = "created")
           /\ printed' = FolderOutput(printed, r)
           /\ IF r = "FileExistsError"
              THEN /\ pc' = "done"
                   /\ output_file' = output_file
                   /\ binExists' = CleanupFiles(binExists)
              ELSE /\ pc' = "verify"
                   /\ output_file' = [dir |-> OUTPUT_FOLDER, stamp |-> now]
                   /\ binExists' = binExists
    /\ UNCHANGED <<dirAtStart, other, locale, lookup>>
    /\ UNCHANGED <<choice, duration, now, srcExists, srcTime, binTime,
                   compilerFound, procVars>>

(* ---------------------------- build cache ------------------------------ *)

\* Faulty variant: the existence test is left out.
VerifySwiftSourceUnchecked ==
    /\ pc = "verify"
    /\ pc' = "ensure"
    /\ printed' = printed
    /\ UNCHANGED auxVars
    /\ UNCHANGED <<choice, duration, output_file, now, fsVars, procVars>>

\* verify_swift_source: FileNotFoundError when core.swift is missing, caught
\* by main's except FileNotFoundError.
VerifySwiftSource ==
    /\ pc = "verify"
    /\ IF srcExists
       THEN /\ pc' = "ensure"
            /\ printed' = printed
            /\ binExists' = binExists
       ELSE /\ pc' = "done"
            /\ printed' = Say(printed, "error_message", "core.swift not found")
            /\ binExists' = CleanupFiles(binExists)
    /\ UNCHANGED auxVars
    /\ UNCHANGED <<choice, duration, output_file, now, fsRest, procVars>>

\* Faulty variant: the comparison reversed.
IsOlder(exe_time, src_time) == exe_time < src_time

\* Faulty variant: an executable as old as the source counts as fresh.
IsNewerOrSame(exe_time, src_time) == exe_time >= src_time

\* exe_time > src_time
IsNewer(exe_time, src_time) == exe_time > src_time

\* Faulty variant: an OSError from getmtime returns True instead of recompiling.
CacheHitOnError(exists, mtime, exe_time, src_time) ==
    /\ exists
    /\ mtime # "ok" \/ exe_time > src_time

\* The test that lets ensure_executable return True without compiling: the
\* executable exists, both modification times were read, and the
\* executable's is the newer. An OSError from either getmtime is passed over
\* and falls through to the compilation.
CacheHit(exists, mtime, exe_time, src_time) ==
    /\ exists
    /\ mtime = "ok"
    /\ IsNewer(exe_time, src_time)

\* The compiler's argument vector.
CompilerArgv == <<SWIFT_COMPILER, SWIFT_SOURCE_FILE, "-o", RECORDER_EXECUTABLE>>

\* How the two os.path.getmtime calls may end when the executable exists.
MtimeReads == {"ok", "exe_failed", "src_failed"}

\* ensure_executable up to its return (cache hit) or up to the blocking
\* subprocess.run of the compiler; a compiler that cannot be spawned raises
\* FileNotFoundError, caught by main.
EnsureExecutable ==
    /\ pc = "ensure"
    /\ \E m \in (IF binExists THEN MtimeReads ELSE {"not_read"}) :
          LET seen == [binExists |-> binExists, binTime |-> binTime,
                       srcExists |-> srcExists, srcTime |-> srcTime,
                       mtime |-> m, at |-> now]
          IN  IF CacheHit(binExists, m, binTime, srcTime)
              THEN /\ ensure' = seen @@ [ret |-> "ready"]
                   /\ pc' = "launch"
                   /\ UNCHANGED <<compilerCalls, printed, binExists>>
              ELSE /\ compilerCalls' = Append(compilerCalls, CompilerArgv)
                   /\ IF compilerFound
                      THEN /\ ensure' = seen @@ [ret |-> "compiling"]
                           /\ pc' = "compiling"
                           /\ binExists' = binExists
                           /\ printed' =
                                 Say(printed, "compiling_in_progress", "")
                      ELSE /\ ensure' = seen @@ [ret |-> "raised"]
                           /\ pc' = "done"
                           /\ binExists' = CleanupFiles(binExists)
                           /\ printed' =
                                 Say(Say(printed, "compiling_in_progress", ""),
                                     "error_message", "swiftc not found")
    /\ UNCHANGED auxVars
    /\ UNCHANGED <<choice, duration, output_file, now, fsRest, compilerExit,
                   launches, child>>

\* Faulty variant: the return code is not tested.
CompilationAlwaysOk(returncode) == TRUE

\* result.returncode != 0 -> return False, else return True.
CompilationOk(returncode) == returncode = 0

\* The compiler exits: the rest of ensure_executable and main's test of its
\* result. A compiler that exits 0 has written the executable.
CompilerExit ==
    /\ pc = "compiling"
    /\ \E rc \in ExitStatuses, err \in StderrTexts :
          /\ compilerExit' = [status |-> rc, stderr |-> err]
          /\ binTime' = IF rc = 0 THEN now ELSE binTime
          /\ binExists' = IF CompilationOk(rc)
                          THEN (rc = 0 \/ binExists)
                          ELSE CleanupFiles(rc = 0 \/ binExists)
          /\ IF CompilationOk(rc)
             THEN /\ ensure' = [ensure EXCEPT !.ret = "ready", !.at = now]
                  /\ pc' = "launch"
                  /\ printed' = printed
             ELSE /\ ensure' = [ensure EXCEPT !.ret = "build_error",
                                             !.at = now]
                  /\ pc' = AfterBuildError
                  /\ printed' = Say(printed, "compilation_failed", err)
    /\ UNCHANGED auxVars
    /\ UNCHANGED <<choice, duration, output_file, now, srcExists, srcTime,
                   dirExists, compilerFound, compilerCalls, launches, child>>

\* KeyboardInterrupt while blocked in subprocess.run of the compiler: it
\* leaves ensure_executable and main's inner try for the outer handler. The
\* compiler may or may not have written the executable by then.
InterruptCompile ==
    /\ pc = "compiling"
    /\ \E written \in BOOLEAN :
          /\ binTime' = IF written THEN now ELSE binTime
          /\ binExists' = CleanupFiles(written \/ binExists)
    /\ ensure' = [ensure EXCEPT !.ret = "raised", !.at = now]
    /\ pc' = "done"
    /\ printed' = UserInterrupted(printed)
    /\ UNCHANGED auxVars
    /\ UNCHANGED <<choice, duration, output_file, now, srcExists, srcTime,
                   dirExists, compilerFound, compilerCalls, compilerExit,
                   launches, child>>

(* --------------------------- capture session --------------------------- *)

\* Faulty variant: two entries of the dictionary exchanged.
RecordingTypeSwapped(c) ==
    CASE c = "1" -> "internal"
      [] c = "2" -> "both"
      [] c = "3" -> "microphone"

\* main's recording_types dictionary.
RecordingType(c) ==
    CASE c = "1" -> "internal"
      [] c = "2" -> "microphone"
      [] c = "3" -> "both"

\* run_recording's message key for the recording type.
MessageKey(recording_type) ==
    CASE recording_type = "internal" -> "recording_started_internal"
      [] recording_type = "microphone" -> "recording_started_microphone"
      [] recording_type = "both" -> "recording_started_both"
      [] OTHER -> "recording_started"

\* The duration argument: '86400' for 'continuous', else the duration.
DurationArg(d) == IF d = CONTINUOUS THEN SENTINEL ELSE d

\* The capture binary's argument vector, in either branch of run_recording.
LaunchArgv(file, d, recording_type) ==
    <<LaunchPath, file, DurationArg(d), recording_type>>

\* Faulty variant: the bounded branch buffers the child's output.
CaptureBounded(d) == d # CONTINUOUS

\* subprocess.run's capture_output for duration d: False in the continuous
\* and in the bounded branch, so the child's output is never buffered.
CaptureOutput(d) == FALSE

\* main's mapping of the choice and run_recording up to the blocking
\* subprocess.run of the capture binary.
RunRecording ==
    /\ pc = "launch"
    /\ LET recording_type == RecordingType(choice)
       IN  /\ printed' = IF duration = CONTINUOUS
                         THEN Say(printed, MessageKey(recording_type), "")
                         ELSE Say(printed, "running_in_progress", "")
           /\ launches' =
                 Append(launches, LaunchArgv(output_file, duration, recording_type))
    /\ child' = [NoChild EXCEPT !.state = "running",
                                !.capture = CaptureOutput(duration)]
    /\ pc' = "running"
    /\ UNCHANGED auxVars
    /\ UNCHANGED <<choice, duration, output_file, now, fsVars, ensure,
                   compilerCalls, compilerExit>>

\* Faulty variant: the wait on the capture binary gives up after a time of
\* its own, leaving the child running.
ChildWaitTimesOut ==
    /\ pc = "running"
    /\ pc' = "done"
    /\ printed' = Say(printed, "error_message", "timed out")
    /\ binExists' = CleanupFiles(binExists)
    /\ UNCHANGED auxVars
    /\ UNCHANGED <<choice, duration, output_file, now, fsRest, ensure,
                   compilerCalls, compilerExit, launches, child>>

\* The capture binary exits by itself: subprocess.run returns, its return
\* code is not looked at, run_recording and main return.
ChildExit ==
    /\ pc = "running"
    /\ \E st \in ExitStatuses :
          child' = [child EXCEPT !.state = "exited", !.status = st]
    /\ pc' = "done"
    /\ UNCHANGED auxVars
    /\ binExists' = CleanupFiles(binExists)
    /\ UNCHANGED <<choice, duration, output_file, now, fsRest, ensure,
                   compilerCalls, compilerExit, launches, printed>>

\* KeyboardInterrupt while blocked in subprocess.run of the capture binary:
\* Popen.communicate first waits a short time for the child.
InterruptRecording ==
    /\ pc = "running"
    /\ child' = [child EXCEPT !.interrupted = TRUE]
    /\ pc' = "sigint_wait"
    /\ UNCHANGED auxVars
    /\ UNCHANGED <<choice, duration, output_file, now, fsVars, ensure,
                   compilerCalls, compilerExit, launches, printed>>

\* Faulty variant: the bounded branch reports the interrupt as an error.
InterruptReportBoundedError(d) ==
    IF d = CONTINUOUS THEN "recording_stopped" ELSE "error_message"

\* The message of run_recording's except KeyboardInterrupt for duration d:
\* the continuous and the bounded branch print the same one.
InterruptReport(d) == "recording_stopped"

\* The child exits during that wait; the KeyboardInterrupt is re-raised and
\* caught by run_recording.
ChildExitsInWait ==
    /\ pc = "sigint_wait"
    /\ \E st \in ExitStatuses :
          child' = [child EXCEPT !.state = "exited", !.status = st]
    /\ printed' = Say(printed, InterruptReport(duration), "")
    /\ pc' = "done"
    /\ UNCHANGED auxVars
    /\ binExists' = CleanupFiles(binExists)
    /\ UNCHANGED <<choice, duration, output_file, now, fsRest, ensure,
                   compilerCalls, compilerExit, launches>>

\* The child is still running when that wait ends: subprocess.run kills it
\* (Popen.kill, SIGKILL), waits for it, and re-raises the KeyboardInterrupt,
\* which run_recording catches.
KillAfterWait ==
    /\ pc = "sigint_wait"
    /\ child' = [child EXCEPT !.state = "exited", !.status = -9,
                              !.killSent = TRUE]
    /\ printed' = Say(printed, InterruptReport(duration), "")
    /\ pc' = "done"
    /\ UNCHANGED auxVars
    /\ binExists' = CleanupFiles(binExists)
    /\ UNCHANGED <<choice, duration, output_file, now, fsRest, ensure,
                   compilerCalls, compilerExit, launches>>

(* ------------------------------- clock --------------------------------- *)

\* Time passes while the session runs.
Tick ==
    /\ pc # "done"
    /\ now < MaxTime
    /\ now' = now + 1
    /\ UNCHANGED auxVars
    /\ UNCHANGED <<pc, choice, duration, output_file, fsVars, procVars,
                   printed>>

Next ==
    \/ HandleUserInput
    \/ InterruptModePrompt
    \/ GetDurationInput
    \/ InterruptDurationPrompt
    \/ GenerateOutputFilename
    \/ VerifySwiftSource
    \/ EnsureExecutable
    \/ CompilerExit
    \/ InterruptCompile
    \/ RunRecording
    \/ ChildExit
    \/ InterruptRecording
    \/ ChildExitsInWait
    \/ KillAfterWait
    \/ Tick

Spec == Init /\ [][Next]_vars

\* The session under the scheduling the program has: its own steps are
\* taken, the compiler and the capture binary exit in the end, and the wait
\* that follows an interrupt ends with the child's exit or with the kill.
\* Nothing makes the user answer a prompt.
FairSpec ==
    /\ Spec
    /\ WF_vars(GenerateOutputFilename)
    /\ WF_vars(VerifySwiftSource)
    /\ WF_vars(EnsureExecutable)
    /\ WF_vars(CompilerExit)
    /\ WF_vars(RunRecording)
    /\ WF_vars(ChildExit)
    /\ WF_vars(ChildExitsInWait \/ KillAfterWait)

\* Sessions preceded by calls of ensure_output_folder on its own.
NextFolder == Next \/ EnsureOutputFolder

SpecFolder == Init /\ [][NextFolder]_vars

(* ------------------------------ outcome -------------------------------- *)

\* How a finished session was reported. main returns nothing, so the
\* outcome is read off what it printed: the 'recording_stopped' message of
\* run_recording's handler is Interrupted, the 'user_interrupted' message of
\* main's outer handler is Cancelled, 'compilation_failed' and
\* 'error_message' are Failed, and a run_recording that returned with none
\* of these is Completed.
Outcome ==
    IF pc # "done" THEN "Running"
    ELSE IF "recording_stopped" \in Keys(printed) THEN "Interrupted"
    ELSE IF "user_interrupted" \in Keys(printed) THEN "Cancelled"
    ELSE IF Keys(printed) \cap {"compilation_failed", "error_message"} # {}
         THEN "Failed"
    ELSE IF child.state = "exited" THEN "Completed"
    ELSE "NoSession"

(* -------------------------- a second instance -------------------------- *)

\* The second instance's steps change only the executable and its own place.
otherFrame ==
    <<pc, choice, duration, output_file, now, srcExists, srcTime, dirExists,
      compilerFound, procVars, printed, dirAtStart, locale, lookup,
      folderCalls>>

\* Faulty variant: the build-cache check waits while the first instance's
\* compiler runs, as under a lock file.
OtherEnsureExecutableLocked ==
    /\ other.pc = "ensure"
    /\ pc # "compiling"
    /\ \E m \in (IF binExists THEN MtimeReads ELSE {"not_read"}) :
          other' = IF CacheHit(binExists, m, binTime, srcTime)
                   THEN [other EXCEPT !.pc = "launch", !.mtime = m]
                   ELSE [other EXCEPT !.pc = "compiling", !.mtime = m,
                                      !.called = TRUE]
    /\ UNCHANGED <<binExists, binTime>>
    /\ UNCHANGED otherFrame

\* ensure_executable in the second instance, up to its return (cache hit)
\* or to the start of its compiler: nothing is locked or waited for.
OtherEnsureExecutable ==
    /\ other.pc = "ensure"
    /\ \E m \in (IF binExists THEN MtimeReads ELSE {"not_read"}) :
          other' = IF CacheHit(binExists, m, binTime, srcTime)
                   THEN [other EXCEPT !.pc = "launch", !.mtime = m]
                   ELSE [other EXCEPT !.pc = "compiling", !.mtime = m,
                                      !.called = TRUE]
    /\ UNCHANGED <<binExists, binTime>>
    /\ UNCHANGED otherFrame

\* The second instance's compiler starts to write the executable: the file
\* exists and is new before it is complete.
OtherCompilerWrites ==
    /\ other.pc = "compiling"
    /\ other' = [other EXCEPT !.pc = "writing"]
    /\ binExists' = TRUE
    /\ binTime' = now
    /\ UNCHANGED otherFrame

\* The second instance's compiler exits: with 0 once the executable is
\* written, with an error before.
OtherCompilerExit ==
    /\ other.pc \in {"compiling", "writing"}
    /\ other' = [other EXCEPT
                   !.pc = IF CompilationOk(IF other.pc = "writing" THEN 0 ELSE 1)
                          THEN "launch" ELSE "failed"]
    /\ UNCHANGED <<binExists, binTime>>
    /\ UNCHANGED otherFrame

\* The second instance launches the capture binary.
OtherRunRecording ==
    /\ other.pc = "launch"
    /\ other' = [other EXCEPT !.pc = "running"]
    /\ UNCHANGED <<binExists, binTime>>
    /\ UNCHANGED otherFrame

\* Two instances on the same core.swift and recorder, each about to call
\* ensure_executable: the first has answered its prompts, made its output
\* path and found the source.
InitTwo ==
    /\ pc = "ensure"
    /\ choice \in {"1", "2", "3"}
    /\ duration \in {CONTINUOUS, <<"4", "5">>}
    /\ now \in Times
    /\ output_file = [dir |-> OUTPUT_FOLDER, stamp |-> now]
    /\ srcExists = TRUE
    /\ srcTime \in Times
    /\ binExists \in BOOLEAN
    /\ binTime \in (IF binExists THEN Times ELSE {0})
    /\ dirExists = TRUE
    /\ compilerFound = TRUE
    /\ ensure = NoEnsure
    /\ compilerCalls = <<>>
    /\ compilerExit = NoExit
    /\ launches = <<>>
    /\ child = NoChild
    /\ printed = <<Msg("macos_audio_recording", "")>>
    /\ dirAtStart = TRUE
    /\ lookup = NoLookup
    /\ folderCalls = 1
    /\ other = [NoOther EXCEPT !.pc = "ensure"]
    /\ locale = SessionLocale

NextTwo ==
    \/ EnsureExecutable
    \/ CompilerExit
    \/ InterruptCompile
    \/ RunRecording
    \/ ChildExit
    \/ InterruptRecording
    \/ ChildExitsInWait
    \/ KillAfterWait
    \/ Tick
    \/ OtherEnsureExecutable
    \/ OtherCompilerWrites
    \/ OtherCompilerExit
    \/ OtherRunRecording

SpecTwo == InitTwo /\ [][NextTwo]_vars

(* --------------------------- message catalog --------------------------- *)

EN == <<"e", "n">>

ZH_CN == <<"z", "h", "_", "C", "N">>

\* The message keys of MESSAGES['en'].
EnKeys ==
    {
      "swift_source_written", "compiling_swift_code",
      "swift_compilation_successful", "compiler_output_stdout",
      "compiler_output_stderr", "swift_compilation_failed",
      "compiler_error_stdout", "compiler_error_stderr",
      "error_during_swift_compilation", "cleaned_up", "enter_duration",
      "duration_positive", "invalid_duration", "failed_to_compile_swift",
      "starting_recording", "recording_complete", "recording_failed",
      "swift_executable_error_stdout", "swift_executable_error_stderr",
      "unexpected_recording_error", "macos_audio_recording",
      "choose_option", "enter_duration_prompt", "continuous_recording",
      "recording_started", "recording_stopped", "compiling_in_progress",
      "compilation_failed", "running_in_progress", "error_message",
      "user_interrupted", "goodbye", "recording_started_internal",
      "recording_started_microphone", "recording_started_both",
      "output_folder_created", "swift_no_display",
      "swift_cannot_add_writer_input", "swift_recording_started",
      "swift_error_stopping", "swift_recording_finished",
      "swift_stream_stopped_error", "swift_usage",
      "swift_invalid_duration", "swift_failed_to_start" }

\* The message keys of MESSAGES['zh_CN']: those of 'en' and two more.
ZhKeys ==
    EnKeys \cup
    {
      "swift_recording_complete_with_path", "swift_error_occurred" }

\* MESSAGES: the catalogs by their key, each with the message keys it has.
MESSAGES == (EN :> EnKeys) @@ (ZH_CN :> ZhKeys)

\* The message keys asked for: every key of a catalog and one of none.
MessageKeys == ZhKeys \cup {"no_such_key"}

\* What locale.getlocale() may report as the language; <<>> is None.
Locales ==
    { <<>>, <<"C">>, EN, <<"e", "n", "_", "U", "S">>, ZH_CN,
      <<"z", "h", "_", "T", "W">>, <<"f", "r", "_", "F", "R">>, <<"f", "r">> }

\* The entry of catalog c for key k, and the placeholder for a missing key.
Entry(c, k) == [catalog |-> c, key |-> k]

Placeholder(k) == [catalog |-> <<>>, key |-> <<"MISSING_TRANSLATION_", k>>]

RECURSIVE UpToUnderscore(_)
\* lang.split('_')[0]
UpToUnderscore(lang) ==
    IF lang = <<>> \/ Head(lang) = "_" THEN <<>>
    ELSE <<Head(lang)>> \o UpToUnderscore(Tail(lang))

\* lang_code = lang.split('_')[0] if lang else 'en'
LangCode(lang) == IF lang # <<>> THEN UpToUnderscore(lang) ELSE EN

\* get_message before its format(): the catalog of the language code, or
\* the English one; its entry for the key, or the English entry, or the
\* placeholder.
GetMessageEntry(lang, key) ==
    LET lang_code == LangCode(lang)
        messages == IF lang_code \in DOMAIN MESSAGES THEN lang_code ELSE EN
    IN  IF key \in MESSAGES[messages] THEN Entry(messages, key)
        ELSE IF key \in MESSAGES[EN] THEN Entry(EN, key)
        ELSE Placeholder(key)

\* A call of get_message(key) on its own, as the tests make it.
GetMessage ==
    /\ \E key \in MessageKeys :
          lookup' = [key |-> key, text |-> GetMessageEntry(locale, key)]
    /\ UNCHANGED <<pc, choice, duration, output_file, now, fsVars, procVars,
                   printed, dirAtStart, other, locale, folderCalls>>

InitMessages ==
    /\ InitSession
    /\ other = NoOther
    /\ locale \in Locales

SpecMessages == InitMessages /\ [][GetMessage]_vars

(* ------------------------------- claims -------------------------------- *)

EnsureCalled == ensure.ret # "not_called"

\* C1 (staleness, cache hit): in every call of ensure_executable in which
\* the executable exists and its modification time, as the call read it, is
\* strictly greater than the source's, the compiler is never invoked and
\* the call returns True.
C1_CacheHitNeverCompiles ==
    (/\ EnsureCalled
     /\ ensure.binExists
     /\ ensure.mtime = "ok"
     /\ ensure.binTime > ensure.srcTime)
    => (compilerCalls = <<>> /\ ensure.ret = "ready")

C1_Witness ==
    /\ pc = "done"
    /\ ensure.ret = "ready"
    /\ ensure.binExists
    /\ ensure.mtime = "ok"
    /\ ensure.binTime > ensure.srcTime
    /\ compilerCalls = <<>>

\* C2 (forced rebuild): in every call of ensure_executable in which the
\* source exists and the executable is missing or not strictly newer than
\* the source (older, or of the same time), the compiler is invoked exactly
\* once, with the arguments core.swift -o recorder.
C2_StaleBinaryCompilesOnce ==
    (/\ EnsureCalled
     /\ ensure.srcExists
     /\ ~ensure.binExists \/ ensure.binTime <= ensure.srcTime)
    => compilerCalls = << <<"swiftc", "core.swift", "-o", "recorder">> >>

C2_Witness ==
    /\ pc = "done"
    /\ ensure.srcExists
    /\ ensure.binExists
    /\ ensure.mtime = "ok"
    /\ ensure.binTime = ensure.srcTime
    /\ Len(compilerCalls) = 1

\* C3 (interrupt without forced kill): the orchestrator never kills the
\* capture child, and after an interrupt it does not leave the wait before
\* the child has exited.
C3_NeverKillsChild ==
    /\ ~child.killSent
    /\ (child.interrupted /\ pc = "done") => child.state = "exited"

\* C4 (interrupt classification): every session whose capture child was
\* running and which ended by an interrupt delivered to the orchestrator
\* ends Interrupted, its last message being 'recording_stopped', never
\* Failed, for continuous and for bounded durations.
C4_InterruptIsInterrupted ==
    (pc = "done" /\ child.interrupted)
    => /\ Outcome = "Interrupted"
       /\ printed[Len(printed)].key = "recording_stopped"
       /\ Keys(printed) \cap {"error_message", "compilation_failed",
                              "user_interrupted"} = {}

C4_Witness ==
    /\ pc = "done"
    /\ child.interrupted
    /\ duration = <<"4", "5">>
    /\ Outcome = "Interrupted"

\* C5 (exit-status classification): a session whose capture child exits
\* without an interrupt is Completed if and only if the exit status is
\* zero, and Failed if it is nonzero.
C5_ExitStatusClassified ==
    (pc = "done" /\ child.state = "exited" /\ ~child.interrupted)
    => /\ (Outcome = "Completed") <=> (child.status = 0)
       /\ (child.status # 0) => (Outcome = "Failed")

\* C6 (launch only after a ready binary): the capture child is launched
\* only after ensure_executable returned True in the session; when the
\* compiler exits nonzero its captured stderr is reported with
\* 'compilation_failed', the session ends Failed and the capture child is
\* never launched.
C6_LaunchOnlyWhenReady ==
    /\ (launches # <<>> \/ pc \in {"launch", "running", "sigint_wait"})
       => ensure.ret = "ready"
    /\ (compilerExit.status \notin {-1, 0})
       => /\ ensure.ret = "build_error"
          /\ printed[Len(printed)] =
                [key |-> "compilation_failed", arg |-> compilerExit.stderr]
          /\ launches = <<>>
          /\ child.state = "none"
          /\ Outcome = "Failed"

C6_Witness ==
    /\ compilerExit.status = 1
    /\ compilerExit.stderr = "error: a"
    /\ ensure.binExists
    /\ pc = "done"

\* C7 (SourceNotFound): when core.swift does not exist the session fails
\* with the 'core.swift not found' error as soon as the binary is to be
\* ensured, and neither the compiler nor the capture binary is spawned,
\* whether or not an executable exists.
C7_SourceNotFound ==
    ~srcExists
    => /\ compilerCalls = <<>>
       /\ launches = <<>>
       /\ ~EnsureCalled
       /\ pc \in {"mode_prompt", "duration_prompt", "gen_output", "verify",
                   "done"}
       /\ (pc = "done" /\ output_file # NoFile)
          => /\ printed[Len(printed)] =
                   [key |-> "error_message", arg |-> "core.swift not found"]
             /\ Outcome = "Failed"

C7_Witness ==
    /\ ~srcExists
    /\ binExists
    /\ pc = "done"
    /\ output_file # NoFile
    /\ Outcome = "Failed"

\* C8 (unknown staleness means rebuild): when the executable exists but
\* reading either modification time fails, ensure_executable invokes the
\* compiler, and returns True only after a compiler run that exited zero.
C8_UnreadableTimeRecompiles ==
    (/\ EnsureCalled
     /\ ensure.binExists
     /\ ensure.mtime \in {"exe_failed", "src_failed"})
    => /\ Len(compilerCalls) = 1
       /\ (ensure.ret = "ready") => (compilerExit.status = 0)

C8_Witness ==
    /\ ensure.binExists
    /\ ensure.mtime = "src_failed"
    /\ ensure.binTime > ensure.srcTime
    /\ Len(compilerCalls) = 1
    /\ ensure.ret = "ready"

\* C9 (argument contract): the capture child is launched with exactly the
\* four arguments ./recorder, the output path, the duration argument and
\* the mode argument; the duration argument is 86400 for a continuous
\* duration and the requested duration string otherwise; the mode argument
\* is internal, microphone or both for the choices 1, 2, 3.
C9_ArgumentContract ==
    \A i \in 1..Len(launches) :
        /\ Len(launches[i]) = 4
        /\ launches[i][1] = <<"./", "recorder">>
        /\ launches[i][2] = output_file
        /\ launches[i][3] =
              (IF duration = <<"c", "o", "n", "t", "i", "n", "u", "o", "u", "s">>
               THEN <<"8", "6", "4", "0", "0">>
               ELSE duration)
        /\ (choice = "1") => (launches[i][4] = "internal")
        /\ (choice = "2") => (launches[i][4] = "microphone")
        /\ (choice = "3") => (launches[i][4] = "both")
        /\ choice \in {"1", "2", "3"}

C9_Witness ==
    /\ Len(launches) = 1
    /\ choice = "3"
    /\ launches[1][3] = <<"8", "6", "4", "0", "0">>
    /\ launches[1][4] = "both"

\* C10 (result invariant): every session that ends Completed or Interrupted
\* has launched the capture binary with the session's output path; a
\* session interrupted at a prompt or during the build ends neither
\* Completed nor Interrupted.
C10_ResultImpliesLaunch ==
    /\ (Outcome \in {"Completed", "Interrupted"})
       => /\ Len(launches) = 1
          /\ output_file # NoFile
          /\ launches[1][2] = output_file
    /\ (pc = "done" /\ launches = <<>>)
       => Outcome \notin {"Completed", "Interrupted"}

C10_Witness ==
    /\ Outcome = "Completed"
    /\ Len(launches) = 1
    /\ launches[1][2] = output_file
    /\ output_file.dir = "output"

Bounded == duration \notin {<<>>, CONTINUOUS}

StartKeys ==
    {"running_in_progress", "recording_started", "recording_started_internal",
     "recording_started_microphone", "recording_started_both"}

\* C11 as stated (output handling by duration kind): the child's output is
\* captured by the orchestrator exactly when the duration is bounded.
C11_CapturedIffBounded ==
    (child.state # "none") => (child.capture <=> Bounded)

\* C11 as amended: for a continuous and for a bounded duration alike the
\* child's output is not captured, and after the child exits by itself the
\* orchestrator prints nothing more.
C11_NeverCaptured ==
    /\ (child.state # "none") => ~child.capture
    /\ (pc = "done" /\ child.state = "exited" /\ ~child.interrupted)
       => printed[Len(printed)].key \in StartKeys

C11_Witness ==
    /\ pc = "done"
    /\ Bounded
    /\ child.state = "exited"
    /\ ~child.interrupted
    /\ ~child.capture

\* C12 as stated (BinaryReady postcondition): whenever ensure_executable
\* has returned True the executable exists and its modification time is not
\* older than the source's.
C12_ReadyIsNotOlder ==
    (ensure.ret = "ready") => (binExists /\ binTime >= srcTime)

\* C12 as amended: whenever ensure_executable has returned True the
\* executable exists, and its modification time is not older than the
\* source's unless the source's modification time lies after the clock at
\* the moment of the return.
C12_ReadyIsNotOlderThanPastSource ==
    (ensure.ret = "ready")
    => /\ binExists
       /\ (srcTime <= ensure.at) => (binTime >= srcTime)

C12_Witness ==
    /\ ensure.ret = "ready"
    /\ compilerExit.status = 0
    /\ ensure.binExists
    /\ ensure.binTime < srcTime
    /\ srcTime <= ensure.at
    /\ binTime >= srcTime

\* C13 (no automatic retry): in a session the compiler is invoked at most
\* once and the capture binary is launched at most once, whatever the
\* outcome of each step; after a build error, a nonzero exit of the child
\* or an interrupt nothing is invoked again.
C13_NoRetry ==
    /\ Len(compilerCalls) <= 1
    /\ Len(launches) <= 1
    /\ (ensure.ret \in {"build_error", "raised"})
       => (pc = "done" /\ launches = <<>>)
    /\ (child.state = "exited") => pc = "done"

C13_Witness ==
    /\ pc = "done"
    /\ ensure.ret = "build_error"
    /\ Len(compilerCalls) = 1
    /\ launches = <<>>
    /\ ~ensure.binExists

\* C14 (fatal paths leave no side effects): a session that ends on a
\* missing source or on a build error has not created the output folder.
C14_FatalPathCreatesNothing ==
    (/\ pc = "done"
     /\ \/ ensure.ret = "build_error"
        \/ [key |-> "error_message", arg |-> "core.swift not found"]
              \in {printed[i] : i \in 1..Len(printed)})
    => dirExists = dirAtStart

\* C15 (failed build keeps the old binary): when the compiler exits nonzero
\* in a session that began with an executable, the executable is still
\* there afterwards, with the modification time it had, cleanup included.
C15_FailedBuildKeepsBinary ==
    (compilerExit.status \notin {-1, 0} /\ ensure.binExists)
    => /\ binExists
       /\ binTime = ensure.binTime

C15_Witness ==
    /\ pc = "done"
    /\ compilerExit.status = 1
    /\ compilerExit.stderr = "error: b"
    /\ ensure.binExists
    /\ binExists
    /\ binTime = ensure.binTime

\* A string that denotes a positive number: an optional plus sign and a
\* decimal literal with a digit other than zero.
PositiveNumber(s) ==
    LET u == IF s # <<>> /\ Head(s) = "+" THEN Tail(s) ELSE s
    IN  IsDecimal(u) /\ ~AllZero(u)

\* C16 (duration input resolution): the duration prompt yields Continuous
\* or a bounded duration that is a positive number, never a bounded
\* duration that is not one.
C16_BoundedIsPositiveNumber ==
    (duration # <<>>) => (duration = CONTINUOUS \/ PositiveNumber(duration))

\* C18 (message fallback chain): get_message returns the entry of the
\* catalog named exactly by the language key when that catalog has the
\* message key, otherwise the English entry when English has it, otherwise
\* the placeholder naming the key.
C18_FallbackChain ==
    (lookup.key # NoValue)
    => lookup.text =
         (IF locale \in DOMAIN MESSAGES /\ lookup.key \in MESSAGES[locale]
          THEN Entry(locale, lookup.key)
          ELSE IF lookup.key \in EnKeys THEN Entry(EN, lookup.key)
          ELSE Placeholder(lookup.key))

\* C19 (directory idempotence and ordering): every call of
\* ensure_output_folder on a folder that exists succeeds without error and
\* changes nothing, however often it is made, and the output folder exists
\* whenever the capture binary has been launched with a path inside it.
C19_FolderIdempotentAndFirst ==
    /\ [][(dirExists /\ folderCalls' # folderCalls)
            => /\ dirExists'
               /\ printed' = printed
               /\ pc' # "done"]_vars
    /\ [](launches # <<>>
           => /\ dirExists
              /\ launches[1][2].dir = "output"
              /\ folderCalls >= 1)

C19_Witness ==
    /\ dirAtStart
    /\ folderCalls > MaxFolderCalls
    /\ dirExists
    /\ launches # <<>>
    /\ "output_folder_created" \notin Keys(printed)

\* C17 (unserialized concurrent use is unsafe): with two instances on the
\* same paths no step of the build-cache check or of the launch of either
\* instance is ever held back by what the other instance is doing; so the
\* states are reached in which one instance has launched the executable
\* while the other's compiler is still writing it, and in which both have
\* invoked the compiler for the same stale executable.
C17_NothingSerializes ==
    /\ (pc = "ensure") => ENABLED EnsureExecutable
    /\ (pc = "launch") => ENABLED RunRecording
    /\ (other.pc = "ensure") => ENABLED OtherEnsureExecutable
    /\ (other.pc = "launch") => ENABLED OtherRunRecording

\* Both instances invoked the compiler for the same stale executable, and
\* the second has launched the executable while the first's compiler runs.
C17_Witness ==
    /\ pc = "compiling"
    /\ Len(compilerCalls) = 1
    /\ other.called
    /\ other.pc = "running"
    /\ ensure.binExists
    /\ ensure.binTime <= ensure.srcTime
    /\ ensure.mtime = "ok"
    /\ other.mtime = "ok"

\* C20 (termination without a timeout of the orchestrator): once the
\* prompts are answered, and given that the compiler and the capture child
\* exit in the end, every session reaches its end; and the wait on the
\* compiler or on the child is left only when that process has exited or
\* an interrupt has arrived, never because of a timeout of the orchestrator.
C20_TerminatesWithoutTimeout ==
    /\ (pc = "gen_output") ~> (pc = "done")
    /\ [][/\ (pc = "compiling" /\ pc' # "compiling")
             => (\/ compilerExit' # NoExit
                 \/ "user_interrupted" \in Keys(printed'))
          /\ (pc = "running" /\ pc' # "running")
             => (\/ child'.state = "exited"
                 \/ child'.interrupted)
          /\ (pc = "sigint_wait" /\ pc' # "sigint_wait")
             => (child'.state = "exited")]_vars

C20_Witness ==
    /\ pc = "done"
    /\ compilerExit.status = 0
    /\ child.state = "exited"
    /\ ~child.interrupted
    /\ duration = CONTINUOUS

\* The step is a KeyboardInterrupt that arrives at the mode prompt, at the
\* duration prompt or during the wait on the compiler: the session leaves
\* that place for its end with no answer taken and no compiler exit seen.
InterruptBeforeLaunch ==
    \/ pc = "mode_prompt" /\ pc' = "done" /\ choice' = NoValue
    \/ pc = "duration_prompt" /\ pc' = "done"
    \/ pc = "compiling" /\ pc' = "done" /\ compilerExit' = NoExit

\* C21 (interrupt before launch): an interrupt at the mode prompt, at the
\* duration prompt or during the wait on the compiler ends the session, the
\* capture binary is never launched, neither by that step nor afterwards,
\* and the interrupt is reported with the 'user_interrupted' message, not
\* with 'recording_stopped' and not with an error message.
C21_InterruptBeforeLaunch ==
    /\ [][InterruptBeforeLaunch
            => /\ launches' = <<>>
               /\ child' = NoChild
               /\ "user_interrupted" \in Keys(printed')
               /\ "recording_stopped" \notin Keys(printed')
               /\ Keys(printed') \cap {"compilation_failed", "error_message"}
                     = {}]_vars
    /\ [][pc = "done" => (pc' = "done" /\ launches' = launches)]_vars

C21_Witness ==
    /\ pc = "done"
    /\ ensure.ret = "raised"
    /\ Len(compilerCalls) = 1
    /\ compilerExit = NoExit
    /\ launches = <<>>
    /\ Outcome = "Cancelled"

\* C22 (an invalid mode choice is a no-op): when the answer at the mode
\* prompt is none of "1", "2", "3", the session is over, no duration was
\* asked for, the output folder is as it was when the session started, no
\* file name was made, the compiler was not invoked and the capture binary
\* was not launched.
C22_InvalidChoiceIsNoOp ==
    (choice \notin {NoValue, "1", "2", "3"})
    => /\ pc = "done"
       /\ duration = <<>>
       /\ Keys(printed) = {"macos_audio_recording"}
       /\ output_file = NoFile
       /\ dirExists = dirAtStart
       /\ ensure = NoEnsure
       /\ compilerCalls = <<>>
       /\ launches = <<>>
       /\ child = NoChild

C22_Witness ==
    /\ choice = "4"
    /\ pc = "done"
    /\ ~dirExists
    /\ compilerFound
    /\ srcExists
    /\ launches = <<>>

=============================================================================
